---- MODULE Spec2Model ----
(***************************************************************************)
(* Model of the firestore-send-email queue processor                       *)
(* (src/firestore-send-email/functions/lib/index.js).                      *)
(*                                                                         *)
(* One message document, the change notifications the trigger layer holds  *)
(* for it, and the invocations of processQueue that handle them.  Every    *)
(* document-store transaction of the code is one atomic step; the awaits   *)
(* between them are the points where other invocations interleave.         *)
(***************************************************************************)
EXTENDS Integers, Sequences, FiniteSets, Bags, TLC

(***************************************************************************)
(* Bounds of the model.                                                    *)
(***************************************************************************)
\* Invocations of processQueue running at once.
MaxInv == 2
\* Steps of the environment in a behaviour: re-deliveries of a notification,
\* external writes of the document, and advances of the clock.
MaxEnv == 2

(***************************************************************************)
(* Program constants.                                                      *)
(***************************************************************************)
\* index.js:271  Date.now() + 60000
LEASE_DURATION == 60000

\* The step the model's clock advances by: exactly a lease, so that after
\* one step a lease granted at the last instant ends now and is not yet
\* over, and after two steps it is over.
TickSteps == {LEASE_DURATION}

\* An empty timestamp field (absent or null).
Null == -1

\* An empty delivery.error / error field (absent or null).
NoError == "null"

(***************************************************************************)
(* JavaScript values of the payload.  An Item is a scalar: a string or a   *)
(* number.  A Field is what a payload property can hold: nothing, one      *)
(* scalar, or an array of scalars.                                         *)
(***************************************************************************)
Str(s) == [t |-> "string", s |-> s]
Num(s) == [t |-> "number", s |-> s]

Absent == [kind |-> "absent", items |-> <<>>]
Scalar(i) == [kind |-> "scalar", items |-> <<i>>]
Arr(is) == [kind |-> "array", items |-> is]

\* JavaScript truthiness of a scalar: the string "" and the numbers 0 and NaN
\* are falsy; every other string (the string "0" too) and number is truthy.
ItemTruthy(i) == IF i.t = "string" THEN i.s # "" ELSE ~(i.s \in {"0", "NaN"})

\* typeof x === "string"
IsString(f) == f.kind = "scalar" /\ f.items[1].t = "string"

\* if (x): arrays (even empty) are truthy, undefined is falsy.
Truthy(f) ==
  \/ f.kind = "array"
  \/ f.kind = "scalar" /\ ItemTruthy(f.items[1])

\* Array.prototype.find: the first element satisfying the test, as a Field
\* (Absent when there is none: find returns undefined).
RECURSIVE FindNonString(_)
FindNonString(is) ==
  IF is = <<>> THEN Absent
  ELSE IF Head(is).t # "string" THEN Scalar(Head(is))
  ELSE FindNonString(Tail(is))

InvalidFieldMsg(field) ==
  "Error: Invalid field \"" \o field \o "\". Expected an array of strings."

\* validateFieldArray(field, array): the error it throws, or NoError.
validateFieldArray(field, array) ==
  IF array.kind # "array" THEN InvalidFieldMsg(field)
  ELSE IF Truthy(FindNonString(array.items)) THEN InvalidFieldMsg(field)
  ELSE NoError

\* Object.assign(target, source): the properties of source overwrite those
\* of target.
ObjectAssign(target, source) ==
  [k \in DOMAIN target \cup DOMAIN source |->
     IF k \in DOMAIN source THEN source[k] ELSE target[k]]

\* An object with no properties.
EmptyObj == [k \in {} |-> Absent]

(***************************************************************************)
(* Collaborators at the boundary of index.js.                              *)
(***************************************************************************)
\* templates.render(name, data): the rendered message fields.
Render(name) == [subject |-> Scalar(Str("Hi")), html |-> Scalar(Str("<p>Hi</p>"))]

\* The email attribute of a document of the users collection; "" when the
\* document does not exist or has no email.
UsersEmail(uid) ==
  IF uid = "u1" THEN "b@x.com"
  ELSE IF uid = "u2" THEN "c@x.com"
  ELSE ""

\* config.defaultFrom, config.defaultReplyTo
DefaultFrom == Scalar(Str("noreply@x.com"))
DefaultReplyTo == Absent

(***************************************************************************)
(* preparePayload                                                          *)
(***************************************************************************)
MissingNameMsg == "Error: Template object is missing a 'name' parameter."
NoUsersCollectionMsg == "Error: Must specify a users collection to send using uids."

\* Lines 101-107 (and 108-114, 115-121): one of to, cc, bcc as a list.
DirectAddresses(f) ==
  IF IsString(f) THEN f.items
  ELSE IF Truthy(f) THEN f.items
  ELSE <<>>

\* The error lines 101-107 throw for one recipient field, or NoError.
DirectError(name, f) ==
  IF IsString(f) THEN NoError
  ELSE IF Truthy(f) THEN validateFieldArray(name, f)
  ELSE NoError

\* Lines 132-135: the error the validation of one *Uids field throws.
UidsError(name, f) ==
  IF Truthy(f) THEN validateFieldArray(name, f) ELSE NoError

\* Lines 165-172: the emails of the uids of one *Uids field, in uid order,
\* uids without an email left out.
RECURSIVE ResolveUids(_)
ResolveUids(uids) ==
  IF uids = <<>> THEN <<>>
  ELSE LET email == UsersEmail(Head(uids).s)
       IN  (IF email # "" THEN <<Str(email)>> ELSE <<>>) \o ResolveUids(Tail(uids))

UidAddresses(f) == IF Truthy(f) THEN ResolveUids(f.items) ELSE <<>>

\* The first error in a sequence of errors, or NoError.
RECURSIVE FirstError(_)
FirstError(es) ==
  IF es = <<>> THEN NoError
  ELSE IF Head(es) # NoError THEN Head(es)
  ELSE FirstError(Tail(es))

\* Lines 91-97: the message after the template step, as [present, fields].
TemplateMessage(payload, tpl) ==
  IF tpl /\ payload.template.present
  THEN [present |-> TRUE,
        fields |-> ObjectAssign(IF payload.message.present
                                THEN payload.message.fields ELSE EmptyObj,
                                Render(payload.template.name))]
  ELSE payload.message

TemplateError(payload, tpl) ==
  IF tpl /\ payload.template.present /\ payload.template.name = ""
  THEN MissingNameMsg ELSE NoError

HasUids(payload) ==
  Truthy(payload.toUids) \/ Truthy(payload.ccUids) \/ Truthy(payload.bccUids)

\* Whether preparePayload returns to the event loop before it is done: it
\* waits for templates.render (line 96), and for db.getAll (line 146) when it
\* gets that far.  Otherwise it runs to its end with nothing in between.
preparePayloadWaits(payload, tpl, users) ==
  \/ tpl /\ payload.template.present /\ payload.template.name # ""
  \/ /\ HasUids(payload)
     /\ FirstError(<<
          TemplateError(payload, tpl),
          DirectError("to", payload.to),
          DirectError("cc", payload.cc),
          DirectError("bcc", payload.bcc),
          IF ~users THEN NoUsersCollectionMsg ELSE NoError,
          UidsError("toUids", payload.toUids),
          UidsError("ccUids", payload.ccUids),
          UidsError("bccUids", payload.bccUids) >>) = NoError

\* preparePayload(payload): [error, to, cc, bcc, message].  tpl says whether
\* the module-level templates handle is set, users whether
\* config.usersCollection is.
preparePayload(payload, tpl, users) ==
  LET err == FirstError(<<
         TemplateError(payload, tpl),
         DirectError("to", payload.to),
         DirectError("cc", payload.cc),
         DirectError("bcc", payload.bcc),
         IF HasUids(payload) /\ ~users THEN NoUsersCollectionMsg ELSE NoError,
         IF HasUids(payload) THEN UidsError("toUids", payload.toUids) ELSE NoError,
         IF HasUids(payload) THEN UidsError("ccUids", payload.ccUids) ELSE NoError,
         IF HasUids(payload) THEN UidsError("bccUids", payload.bccUids) ELSE NoError >>)
  IN  IF err # NoError
      THEN [error |-> err, to |-> <<>>, cc |-> <<>>, bcc |-> <<>>,
            message |-> payload.message]
      ELSE [error |-> NoError,
            to |-> DirectAddresses(payload.to) \o
                   (IF HasUids(payload) THEN UidAddresses(payload.toUids) ELSE <<>>),
            cc |-> DirectAddresses(payload.cc) \o
                   (IF HasUids(payload) THEN UidAddresses(payload.ccUids) ELSE <<>>),
            bcc |-> DirectAddresses(payload.bcc) \o
                    (IF HasUids(payload) THEN UidAddresses(payload.bccUids) ELSE <<>>),
            message |-> TemplateMessage(payload, tpl)]

(***************************************************************************)
(* deliver, up to the completion transaction: the update it will write.    *)
(***************************************************************************)
NoRecipientsMsg == "Error: Failed to deliver email. Expected at least 1 recipient."
\* The engine's description of transport.sendMail with transport undefined
\* (the wording of current Node.js).
NoTransportMsg ==
  "TypeError: Cannot read properties of undefined (reading 'sendMail')"
NoMessageMsg == "TypeError: Cannot convert undefined or null to object"
TransportErrorMsg == "Error: transport failure"
\* The description of a rejection of templates.render or db.getAll.
CollaboratorErrorMsg == "Error: collaborator failure"

\* Lines 207-214: the argument of transport.sendMail.
MailOf(prep, payload) ==
  ObjectAssign(prep.message.fields,
               [from |-> IF Truthy(payload.from) THEN payload.from ELSE DefaultFrom,
                replyTo |-> IF Truthy(payload.replyTo) THEN payload.replyTo
                            ELSE DefaultReplyTo,
                to |-> Arr(prep.to),
                cc |-> Arr(prep.cc),
                bcc |-> Arr(prep.bcc),
                headers |-> Absent])

\* Lines 202-206 and the evaluation of the call of line 207: the error thrown
\* before the transport is entered, or NoError.
PreSendError(prep, transportSet) ==
  IF prep.error # NoError THEN prep.error
  ELSE IF Len(prep.to) = 0 /\ Len(prep.cc) = 0 /\ Len(prep.bcc) = 0
       THEN NoRecipientsMsg
  ELSE IF ~transportSet THEN NoTransportMsg
  ELSE IF ~prep.message.present THEN NoMessageMsg
  ELSE NoError

\* The update object of deliver (lines 196-230) but for the fields every
\* completion writes alike; sent says whether transport.sendMail was entered,
\* accepts is the transport's verdict.
deliverUpdate(payload, transportSet, tpl, users, accepts) ==
  LET prep == preparePayload(payload, tpl, users)
      pre == PreSendError(prep, transportSet)
  IN  IF pre # NoError
      THEN [state |-> "ERROR", error |-> pre, hasInfo |-> FALSE,
            accepted |-> <<>>, sent |-> FALSE]
      ELSE IF accepts
      THEN [state |-> "SUCCESS", error |-> NoError, hasInfo |-> TRUE,
            accepted |-> prep.to \o prep.cc \o prep.bcc, sent |-> TRUE]
      ELSE [state |-> "ERROR", error |-> TransportErrorMsg, hasInfo |-> FALSE,
            accepted |-> <<>>, sent |-> TRUE]

NoUpdate ==
  [state |-> "NONE", error |-> NoError, hasInfo |-> FALSE, accepted |-> <<>>,
   sent |-> FALSE]

(***************************************************************************)
(* processWrite: the branch taken for a change, read at time t.            *)
(***************************************************************************)
\* A processWrite whose ERROR case falls through to the claim.
processWriteBranchErrorClaims(change, t) ==
  IF ~change.after.exists THEN "none"
  ELSE IF ~change.beforeExists THEN "create"
  ELSE IF ~change.after.hasDelivery THEN "none"
  ELSE IF change.after.state = "SUCCESS" THEN "none"
  ELSE IF change.after.state = "PROCESSING"
       THEN IF change.after.lease = Null THEN "throw"
            ELSE IF change.after.lease < t THEN "expire"
            ELSE "none"
  ELSE IF change.after.state \in {"PENDING", "RETRY", "ERROR"} THEN "claim"
  ELSE "none"

\* A processWrite that takes a lease ending now for an expired one.
processWriteBranchLeaseInclusive(change, t) ==
  IF ~change.after.exists THEN "none"
  ELSE IF ~change.beforeExists THEN "create"
  ELSE IF ~change.after.hasDelivery THEN "none"
  ELSE IF change.after.state \in {"SUCCESS", "ERROR"} THEN "none"
  ELSE IF change.after.state = "PROCESSING"
       THEN IF change.after.lease = Null THEN "throw"
            ELSE IF change.after.lease <= t THEN "expire"
            ELSE "none"
  ELSE IF change.after.state \in {"PENDING", "RETRY"} THEN "claim"
  ELSE "none"

processWriteBranch(change, t) ==
  IF ~change.after.exists THEN "none"
  ELSE IF ~change.beforeExists THEN "create"
  ELSE IF ~change.after.hasDelivery THEN "none"
  ELSE IF change.after.state \in {"SUCCESS", "ERROR"} THEN "none"
  ELSE IF change.after.state = "PROCESSING"
       THEN IF change.after.lease = Null THEN "throw"
            ELSE IF change.after.lease < t THEN "expire"
            ELSE "none"
  ELSE IF change.after.state \in {"PENDING", "RETRY"} THEN "claim"
  ELSE "none"

(***************************************************************************)
(* The writes of the core to the document (the argument of each            *)
(* transaction.update, applied to the document d at server time t).        *)
(***************************************************************************)
LeaseExpiredMsg == "Message processing lease expired."

\* A create-claim that writes "delivery.state" and "delivery.startTime" by path
\* and so keeps the attempts already counted.
createClaimKeepsAttempts(d, t) ==
  [d EXCEPT !.hasDelivery = TRUE, !.state = "PENDING", !.error = NoError,
            !.startTime = t]

\* processCreate, lines 79-86: the whole delivery map is replaced.
createClaim(d, t) ==
  [d EXCEPT !.hasDelivery = TRUE, !.state = "PENDING", !.attempts = 0,
            !.error = NoError, !.startTime = t, !.endTime = Null,
            !.lease = Null, !.hasInfo = FALSE, !.accepted = <<>>]

\* processWrite, lines 269-272.
claimUpdate(d, t) ==
  [d EXCEPT !.hasDelivery = TRUE, !.state = "PROCESSING",
            !.lease = t + LEASE_DURATION]

\* processWrite, lines 257-260: "error" is a field of the document, beside
\* "delivery".
expireUpdate(d) ==
  [d EXCEPT !.hasDelivery = TRUE, !.state = "ERROR",
            !.topError = LeaseExpiredMsg]

\* A completion that does not count the attempt.
completeUpdateNoCount(d, upd, t) ==
  [d EXCEPT !.hasDelivery = TRUE, !.endTime = t,
            !.error = upd.error, !.lease = Null, !.state = upd.state,
            !.hasInfo = IF upd.hasInfo THEN TRUE ELSE @,
            !.accepted = IF upd.hasInfo THEN upd.accepted ELSE @]

\* A completion that leaves the lease in place.
completeUpdateKeepsLease(d, upd, t) ==
  [d EXCEPT !.hasDelivery = TRUE, !.attempts = @ + 1, !.endTime = t,
            !.error = upd.error, !.state = upd.state,
            !.hasInfo = IF upd.hasInfo THEN TRUE ELSE @,
            !.accepted = IF upd.hasInfo THEN upd.accepted ELSE @]

\* deliver, lines 196-201, 222-223, 227-228 and 233.
completeUpdate(d, upd, t) ==
  [d EXCEPT !.hasDelivery = TRUE, !.attempts = @ + 1, !.endTime = t,
            !.error = upd.error, !.lease = Null, !.state = upd.state,
            !.hasInfo = IF upd.hasInfo THEN TRUE ELSE @,
            !.accepted = IF upd.hasInfo THEN upd.accepted ELSE @]

(***************************************************************************)
(* State.                                                                  *)
(***************************************************************************)
VARIABLES
  payload,      \* the mail fields of the document (never written by the core)
  config,       \* the configuration of the process
  doc,          \* the document: existence, delivery sub-record, error field
  notifs,       \* bag of change notifications the trigger layer still holds
  invs,         \* bag of running invocations of processQueue
  now,          \* the clock (Date.now() and the server timestamp), in ms
  initialized,  \* index.js:29
  transport,    \* index.js:27  TRUE once assigned
  templates,    \* index.js:28  TRUE once assigned
  sends,        \* history: calls of transport.sendMail
  claims,       \* history: committed claims
  completions,  \* history: completion writes since the last create-claim
  creates,      \* history: committed create-claims
  retries,      \* history: external writes of RETRY
  expires,      \* history: committed lease-expiry writes
  rejected,     \* history: an invocation rejected to the framework
  mail,         \* history: the argument of the last call of transport.sendMail
  events        \* ticks, re-deliveries and external writes so far

vars == <<payload, config, doc, notifs, invs, now, initialized, transport,
          templates, sends, claims, completions, creates, retries, expires,
          rejected, mail, events>>

\* What a snapshot of the document holds of its delivery sub-record.
Snap(d) ==
  [exists |-> d.exists, hasDelivery |-> d.hasDelivery, state |-> d.state,
   lease |-> d.lease]

Change(before, d) == [beforeExists |-> before, after |-> Snap(d)]

NoChange ==
  [beforeExists |-> FALSE,
   after |-> [exists |-> FALSE, hasDelivery |-> FALSE, state |-> "NONE",
              lease |-> Null]]

\* A document as an external actor creates it: no delivery field.
NewDoc ==
  [exists |-> TRUE, hasDelivery |-> FALSE, state |-> "NONE", attempts |-> 0,
   error |-> NoError, startTime |-> Null, endTime |-> Null, lease |-> Null,
   hasInfo |-> FALSE, accepted |-> <<>>, topError |-> NoError]

\* An invocation: where it is, the change it handles, the value of Date.now()
\* it read at line 271, the value of templates it read at line 92 and the
\* update its completion will write.
Invocation(pc, change, upd) ==
  [pc |-> pc, change |-> change, at |-> Null, tpl |-> FALSE, upd |-> upd]

(***************************************************************************)
(* The documents and configurations the model is run on.                   *)
(***************************************************************************)
PlainMessage ==
  [present |-> TRUE,
   fields |-> [subject |-> Scalar(Str("s")), text |-> Scalar(Str("t"))]]

NoTemplate == [present |-> FALSE, name |-> ""]

BasePayload ==
  [to |-> Absent, cc |-> Absent, bcc |-> Absent,
   toUids |-> Absent, ccUids |-> Absent, bccUids |-> Absent,
   from |-> Absent, replyTo |-> Absent,
   template |-> NoTemplate, message |-> PlainMessage]

\* {to: "a@x.com", message: {subject: "s", text: "t"}}
PGood == [BasePayload EXCEPT !.to = Scalar(Str("a@x.com"))]

\* {message: {to: "a@x.com", subject: "s", text: "t"}}
PInMessage ==
  [BasePayload EXCEPT
     !.message = [present |-> TRUE,
                  fields |-> [to |-> Scalar(Str("a@x.com")),
                              subject |-> Scalar(Str("s")),
                              text |-> Scalar(Str("t"))]]]

\* {to: [], cc: [], message: ...}
PNoRecipients == [BasePayload EXCEPT !.to = Arr(<<>>), !.cc = Arr(<<>>)]

\* {toUids: ["u1"], template: {name: "welcome"}, message: {subject: "Bye"}}
PTemplateUids ==
  [BasePayload EXCEPT
     !.toUids = Arr(<<Str("u1")>>),
     !.template = [present |-> TRUE, name |-> "welcome"],
     !.message = [present |-> TRUE,
                  fields |-> [subject |-> Scalar(Str("Bye"))]]]

Cfg(testing, users, tpl) ==
  [testing |-> testing, usersCollection |-> users, templatesCollection |-> tpl]

Scenarios ==
  { [payload |-> PTemplateUids, config |-> Cfg(TRUE, TRUE, TRUE)],
    [payload |-> PNoRecipients, config |-> Cfg(FALSE, FALSE, FALSE)] }

(***************************************************************************)
(* Initial state: the process has loaded the module (lines 26-29), an      *)
(* external actor has just created the document, and the trigger layer     *)
(* holds the notification of that creation.                                *)
(***************************************************************************)
InitWith(sc) ==
  /\ payload = sc.payload
  /\ config = sc.config
  /\ doc = NewDoc
  /\ notifs = SetToBag({Change(FALSE, NewDoc)})
  /\ invs = EmptyBag
  /\ now = 0
  /\ initialized = FALSE
  /\ transport = FALSE
  /\ templates = FALSE
  /\ sends = 0
  /\ claims = 0
  /\ completions = 0
  /\ creates = 0
  /\ retries = 0
  /\ expires = 0
  /\ rejected = FALSE
  /\ mail = EmptyObj
  /\ events = 0

Init == \E sc \in Scenarios : InitWith(sc)


(***************************************************************************)
(* processQueue, lines 278-289, and initialize, lines 33-43.               *)
(***************************************************************************)
One(x) == SetToBag({x})

handles == <<initialized, transport, templates>>
history == <<sends, claims, completions, creates, retries, expires, rejected,
             mail>>

\* processWrite up to its first transaction, for an invocation held in the
\* bag "rest" of the other invocations: it returns at once, or throws into
\* the catch of line 284, or goes on to a transaction.
Dispatch(change, rest) ==
  LET b == processWriteBranch(change, now)
  IN  invs' = IF b \in {"none", "throw"} THEN rest
              ELSE rest (+) One(Invocation(b, change, NoUpdate))

\* The trigger layer hands a notification to a new invocation; with
\* redeliver it keeps the notification and will deliver it again.
Deliverable(n, redeliver) ==
  /\ BagIn(n, notifs)
  /\ BagCardinality(invs) < MaxInv
  /\ redeliver => events < MaxEnv
  /\ notifs' = IF redeliver THEN notifs ELSE notifs (-) One(n)
  /\ events' = IF redeliver THEN events + 1 ELSE events
  /\ UNCHANGED <<payload, config, doc, now, history>>

\* initialize() returns at line 35.
StartInitialized(n, redeliver) ==
  /\ initialized
  /\ Deliverable(n, redeliver)
  /\ Dispatch(n, invs)
  /\ UNCHANGED handles

\* First invocation, config.testing unset: transportLayer() resolves with
\* createTransport(...) before any other invocation can start.
StartInitialize(n, redeliver) ==
  /\ ~initialized
  /\ ~config.testing
  /\ Deliverable(n, redeliver)
  /\ initialized' = TRUE
  /\ transport' = TRUE
  /\ templates' = config.templatesCollection
  /\ Dispatch(n, invs)

\* First invocation, config.testing set: initialized is set (line 36) and the
\* invocation waits for createTestAccount (lines 46-62).
StartInitializeTesting(n, redeliver) ==
  /\ ~initialized
  /\ config.testing
  /\ Deliverable(n, redeliver)
  /\ initialized' = TRUE
  /\ invs' = invs (+) One(Invocation("initWait", n, NoUpdate))
  /\ UNCHANGED <<transport, templates>>

\* createTestAccount calls back with an account: lines 39-42, then
\* processWrite.
InitDone(r) ==
  /\ BagIn(r, invs)
  /\ r.pc = "initWait"
  /\ transport' = TRUE
  /\ templates' = config.templatesCollection
  /\ Dispatch(r.change, invs (-) One(r))
  /\ UNCHANGED <<payload, config, doc, notifs, now, initialized, history, events>>

\* createTestAccount calls back with an error: initialize() rejects, and so
\* does the handler (line 279 is outside the try).  The callback goes on
\* after reject(err) (line 49 does not return) and reads account.user: when
\* the account is undefined that throws into the caller of the callback, and
\* if nothing there catches it the process ends, with every invocation it
\* runs and its module state; the next notification starts a new process.
InitFail(r, exits) ==
  /\ BagIn(r, invs)
  /\ r.pc = "initWait"
  /\ rejected' = TRUE
  /\ IF exits
     THEN /\ invs' = EmptyBag
          /\ initialized' = FALSE
          /\ transport' = FALSE
          /\ templates' = FALSE
     ELSE /\ invs' = invs (-) One(r)
          /\ UNCHANGED handles
  /\ UNCHANGED <<payload, config, doc, notifs, now, sends, claims,
                 completions, creates, retries, expires, mail, events>>

(***************************************************************************)
(* The transactions.  Each is a blind transaction.update: it reads nothing,  *)
(* and fails (rejecting, into the catch of line 284) only when the         *)
(* document no longer exists.                                              *)
(***************************************************************************)
\* A committed write w of the document, and the notification it triggers.
Write(w) ==
  /\ doc' = w
  /\ notifs' = notifs (+) One(Change(TRUE, w))

\* processCreate, lines 76-89.
CreateCommit(r) ==
  /\ BagIn(r, invs)
  /\ r.pc = "create"
  /\ invs' = invs (-) One(r)
  /\ IF doc.exists
     THEN /\ Write(createClaim(doc, now))
          /\ completions' = 0
          /\ creates' = creates + 1
     ELSE /\ UNCHANGED <<doc, notifs, completions, creates>>
  /\ UNCHANGED <<payload, config, now, handles, sends, claims, retries, expires,
                 rejected, mail, events>>

\* processWrite, lines 256-262.
ExpireCommit(r) ==
  /\ BagIn(r, invs)
  /\ r.pc = "expire"
  /\ invs' = invs (-) One(r)
  /\ IF doc.exists
     THEN /\ Write(expireUpdate(doc))
          /\ expires' = expires + 1
     ELSE /\ UNCHANGED <<doc, notifs, expires>>
  /\ UNCHANGED <<payload, config, now, handles, sends, claims, completions,
                 creates, retries, rejected, mail, events>>

\* processWrite, lines 268-272: the update function of the claim runs and
\* reads the clock (line 271); the store commits the update later.
ClaimRead(r) ==
  /\ BagIn(r, invs)
  /\ r.pc = "claim"
  /\ invs' = (invs (-) One(r)) (+)
             One([r EXCEPT !.pc = "claimCommit", !.at = now])
  /\ UNCHANGED <<payload, config, doc, notifs, now, handles, history, events>>

\* processWrite, lines 268-275: the claim is committed, with the lease the
\* update function computed, and the invocation goes on to deliver; or the
\* transaction fails and processWrite throws.
ClaimCommit(r) ==
  /\ BagIn(r, invs)
  /\ r.pc = "claimCommit"
  /\ IF doc.exists
     THEN /\ Write(claimUpdate(doc, r.at))
          /\ invs' = (invs (-) One(r)) (+)
                     One([r EXCEPT !.pc = "deliver", !.at = Null])
          /\ claims' = claims + 1
     ELSE /\ invs' = invs (-) One(r)
          /\ UNCHANGED <<doc, notifs, claims>>
  /\ UNCHANGED <<payload, config, now, handles, sends, completions, creates,
                 retries, expires, rejected, mail, events>>

\* deliver, line 203, when preparePayload waits: templates is read (line 92)
\* and the invocation returns to the event loop; transport is read later
\* (line 207).
Prepare(r) ==
  /\ BagIn(r, invs)
  /\ r.pc = "deliver"
  /\ preparePayloadWaits(payload, templates, config.usersCollection)
  /\ invs' = (invs (-) One(r)) (+)
             One([r EXCEPT !.pc = "send", !.tpl = templates])
  /\ UNCHANGED <<payload, config, doc, notifs, now, handles, history, events>>

\* deliver, line 203: templates.render or db.getAll rejects, and so does
\* preparePayload; the catch of line 226 records the error.
PrepareReject(r) ==
  /\ BagIn(r, invs)
  /\ r.pc = "send"
  /\ invs' = (invs (-) One(r)) (+)
             One([r EXCEPT !.pc = "complete", !.tpl = FALSE,
                           !.upd = [NoUpdate EXCEPT !.state = "ERROR",
                                                    !.error = CollaboratorErrorMsg]])
  /\ UNCHANGED <<payload, config, doc, notifs, now, handles, history, events>>

\* deliver, lines 203-214: preparePayload (what is left of it), the recipient
\* count, and the call of transport.sendMail, which the invocation then
\* waits for; or an error thrown before the transport is entered.
Deliver(r) ==
  /\ BagIn(r, invs)
  /\ \/ r.pc = "send"
     \/ /\ r.pc = "deliver"
        /\ ~preparePayloadWaits(payload, templates, config.usersCollection)
  /\ LET tpl == IF r.pc = "send" THEN r.tpl ELSE templates
         prep == preparePayload(payload, tpl, config.usersCollection)
     IN  IF PreSendError(prep, transport) # NoError
         THEN /\ invs' = (invs (-) One(r)) (+)
                         One([r EXCEPT
                                !.pc = "complete", !.tpl = FALSE,
                                !.upd = deliverUpdate(payload, transport, tpl,
                                                      config.usersCollection,
                                                      TRUE)])
              /\ UNCHANGED <<sends, mail>>
         ELSE /\ invs' = (invs (-) One(r)) (+)
                         One([r EXCEPT !.pc = "sending", !.tpl = tpl])
              /\ sends' = sends + 1
              /\ mail' = MailOf(prep, payload)
  /\ UNCHANGED <<payload, config, doc, notifs, now, handles, claims,
                 completions, creates, retries, expires, rejected, events>>

\* deliver, lines 207-230: transport.sendMail returns its result, or fails.
\* The value of templates the invocation read is of no use to it from here
\* on.
SendReturn(r, accepts) ==
  /\ BagIn(r, invs)
  /\ r.pc = "sending"
  /\ invs' = (invs (-) One(r)) (+)
             One([r EXCEPT
                    !.pc = "complete", !.tpl = FALSE,
                    !.upd = deliverUpdate(payload, TRUE, r.tpl,
                                          config.usersCollection, accepts)])
  /\ UNCHANGED <<payload, config, doc, notifs, now, handles, history, events>>

\* A deliver that does not wait for transport.sendMail: the completion is
\* written, as a success, while the call is still out.
CompleteCommitNoAwait(r) ==
  /\ BagIn(r, invs)
  /\ r.pc \in {"sending", "complete"}
  /\ invs' = invs (-) One(r)
  /\ IF doc.exists
     THEN /\ Write(completeUpdate(doc,
                                  IF r.pc = "sending"
                                  THEN deliverUpdate(payload, TRUE, r.tpl,
                                                     config.usersCollection, TRUE)
                                  ELSE r.upd,
                                  now))
          /\ completions' = completions + 1
     ELSE /\ UNCHANGED <<doc, notifs, completions>>
  /\ UNCHANGED <<payload, config, now, handles, sends, claims, creates,
                 retries, expires, rejected, mail, events>>

\* deliver, lines 232-235: the completion.
CompleteCommit(r) ==
  /\ BagIn(r, invs)
  /\ r.pc = "complete"
  /\ invs' = invs (-) One(r)
  /\ IF doc.exists
     THEN /\ Write(completeUpdate(doc, r.upd, now))
          /\ completions' = completions + 1
     ELSE /\ UNCHANGED <<doc, notifs, completions>>
  /\ UNCHANGED <<payload, config, now, handles, sends, claims, creates,
                 retries, expires, rejected, mail, events>>

(***************************************************************************)
(* The environment: time, and the external actors that write the document. *)
(***************************************************************************)
Tick(d) ==
  /\ events < MaxEnv
  /\ now' = now + d
  /\ events' = events + 1
  /\ UNCHANGED <<payload, config, doc, notifs, invs, handles, history>>

External(w) ==
  /\ doc.exists
  /\ events < MaxEnv
  /\ Write(w)
  /\ events' = events + 1
  /\ UNCHANGED <<payload, config, invs, now, handles, sends, claims,
                 completions, creates, expires, rejected, mail>>

\* An update that leaves the delivery sub-record as it is.
ExternalTouch ==
  /\ External(doc)
  /\ UNCHANGED retries

\* The operator (or an automation) asks for another attempt.
ExternalRetry ==
  /\ doc.hasDelivery
  /\ doc.state \in {"SUCCESS", "ERROR"}
  /\ External([doc EXCEPT !.state = "RETRY"])
  /\ retries' = retries + 1

\* The document is deleted.
ExternalDelete ==
  /\ External([NewDoc EXCEPT !.exists = FALSE])
  /\ UNCHANGED retries

(***************************************************************************)
(* The next-state relation: each step of the core, for any notification    *)
(* the trigger layer holds and any running invocation.                     *)
(***************************************************************************)
Notifications == BagToSet(notifs)
Running == BagToSet(invs)

DoStartInitialized ==
  \E n \in Notifications, redeliver \in BOOLEAN : StartInitialized(n, redeliver)
DoStartInitialize ==
  \E n \in Notifications, redeliver \in BOOLEAN : StartInitialize(n, redeliver)
DoStartInitializeTesting ==
  \E n \in Notifications, redeliver \in BOOLEAN : StartInitializeTesting(n, redeliver)
DoInitDone == \E r \in Running : InitDone(r)
DoInitFail == \E r \in Running, exits \in BOOLEAN : InitFail(r, exits)
DoCreateCommit == \E r \in Running : CreateCommit(r)
DoExpireCommit == \E r \in Running : ExpireCommit(r)
DoClaimRead == \E r \in Running : ClaimRead(r)
DoClaimCommit == \E r \in Running : ClaimCommit(r)
DoPrepare == \E r \in Running : Prepare(r)
DoPrepareReject == \E r \in Running : PrepareReject(r)
DoDeliver == \E r \in Running : Deliver(r)
DoSendReturn == \E r \in Running, accepts \in BOOLEAN : SendReturn(r, accepts)
DoCompleteCommit == \E r \in Running : CompleteCommit(r)
DoTick == \E d \in TickSteps : Tick(d)

Next ==
  \/ DoStartInitialized
  \/ DoStartInitialize
  \/ DoStartInitializeTesting
  \/ DoInitDone
  \/ DoInitFail
  \/ DoCreateCommit
  \/ DoExpireCommit
  \/ DoClaimRead
  \/ DoClaimCommit
  \/ DoPrepare
  \/ DoPrepareReject
  \/ DoDeliver
  \/ DoSendReturn
  \/ DoCompleteCommit
  \/ DoTick
  \/ ExternalTouch
  \/ ExternalRetry
  \/ ExternalDelete

Spec == Init /\ [][Next]_vars

(***************************************************************************)
(* Properties of the delivery state machine.                               *)
(***************************************************************************)
Terminal == {"SUCCESS", "ERROR"}

\* The writes that put the document into PENDING or RETRY.
episodes == creates + retries

\* The invocations that have called the transport and not yet written their
\* completion.
SentNotCompleted ==
  LET S == {r \in Running : \/ r.pc = "sending"
                            \/ r.pc = "complete" /\ r.upd.sent}
  IN  BagCardinality([r \in S |-> CopiesIn(r, invs)])

\* C1  Mutual exclusion.  Each time the document is put into PENDING (or
\* RETRY), however many invocations observe it in that state, at most one
\* claim is committed and the transport is called at most once.
C1_MutualExclusion ==
  /\ claims <= episodes
  /\ sends <= episodes

\* C2  SUCCESS and ERROR are terminal.  No step other than the external
\* write of RETRY (or the deletion of the document) changes delivery.state
\* once it is SUCCESS or ERROR.
C2_TerminalIsFinal ==
  [][(doc.exists /\ doc.state \in Terminal /\ retries' = retries /\ doc'.exists)
       => doc'.state = doc.state]_vars

\* C3 as stated.  delivery.attempts equals the number of calls of
\* transport.sendMail for the document (the calls whose completion is not
\* yet written set aside).
C3_AttemptsEqualSends ==
  doc.exists => doc.attempts + SentNotCompleted = sends

\* C3 amended.  delivery.attempts equals the number of completion writes
\* committed since the last create-claim, whether or not the attempt reached
\* the transport.
C3_AttemptsEqualCompletions ==
  doc.exists => doc.attempts = completions

\* An attempt that failed in preparation has been counted: attempts is 1 and
\* the transport was never called.
C3_Witness ==
  doc.exists /\ doc.attempts = 1 /\ sends = 0 /\ completions = 1

\* C4  The create-claim leaves delivery = {startTime: now, state: PENDING,
\* attempts: 0, error: null}, and an invocation handling a creation goes to
\* no claim and no transport call.
C4_CreateClaim ==
  /\ [][creates' = creates + 1 =>
          /\ doc'.hasDelivery
          /\ doc'.state = "PENDING"
          /\ doc'.attempts = 0
          /\ doc'.error = NoError
          /\ doc'.startTime = now']_vars
  /\ [](\A r \in Running :
          (~r.change.beforeExists /\ r.change.after.exists)
            => r.pc \in {"initWait", "create"})

\* A create-claim was committed on a document that had been attempted: the
\* document is back in PENDING with no attempt counted.
C4_Witness ==
  /\ creates = 2
  /\ sends >= 1
  /\ doc.state = "PENDING"
  /\ doc.attempts = 0

\* C5  Every completion write adds exactly 1 to attempts, sets endTime,
\* empties leaseExpireTime and sets state to SUCCESS with info and no error,
\* or to ERROR with the error description.
C5_Completion ==
  [][completions' = completions + 1 =>
       /\ doc'.attempts = doc.attempts + 1
       /\ doc'.endTime = now'
       /\ doc'.lease = Null
       /\ \/ doc'.state = "SUCCESS" /\ doc'.hasInfo /\ doc'.error = NoError
          \/ doc'.state = "ERROR" /\ doc'.error # NoError]_vars

\* A completion was written on top of an earlier one.
C5_Witness ==
  completions = 2 /\ doc.attempts = 2 /\ doc.state \in Terminal

LeaseOfClockReading ==
  [][claims' = claims + 1 =>
       \E r \in Running :
          /\ r.pc = "claimCommit"
          /\ r.at <= now
          /\ doc'.state = "PROCESSING"
          /\ doc'.lease = r.at + LEASE_DURATION]_vars

\* Whether a change is an update whose after snapshot shows a terminal state.
ObservesTerminal(change) ==
  /\ change.beforeExists
  /\ change.after.exists
  /\ change.after.hasDelivery
  /\ change.after.state \in Terminal

\* C7  An invocation handling an update that shows SUCCESS or ERROR is never
\* at a transaction or at the transport call: it writes nothing and sends
\* nothing.
C7_TerminalNoOp ==
  \A r \in Running : ObservesTerminal(r.change) => r.pc = "initWait"

\* The notification of a completion has been handled, like every other: the
\* document is as the completion left it.
C7_Witness ==
  /\ notifs = EmptyBag
  /\ invs = EmptyBag
  /\ completions = 1
  /\ doc.state \in Terminal
  /\ doc.attempts = 1

\* C8  The lease-expiry write sets delivery.state = ERROR and records the
\* lease-expired description in delivery.error.
C8_LeaseExpiry ==
  [][expires' = expires + 1 =>
       /\ doc'.state = "ERROR"
       /\ doc'.error = LeaseExpiredMsg]_vars

\* C11  No failure crosses the invocation boundary: no invocation of
\* processQueue rejects to the framework, whatever fails inside it.
C11_NeverRejects ==
  ~rejected

\* The invocations at the given positions.
At(pcs) ==
  LET S == {r \in Running : r.pc \in pcs}
  IN  BagCardinality([r \in S |-> CopiesIn(r, invs)])

\* C14  Ordering within one invocation.  Every invocation that is about to
\* call the transport, or has called it, has committed its own claim; the
\* transport is called by an invocation past its claim, which then waits
\* for it; an invocation holds the update of its completion only once its
\* transport call has returned or failed (or was never made); and a
\* completion is written by such an invocation, never by one whose call is
\* still out.
C14_Ordering ==
  /\ [](sends + At({"deliver", "send"}) <= claims)
  /\ [](At({"sending"}) <= sends)
  /\ [](\A r \in Running : r.upd # NoUpdate <=> r.pc = "complete")
  /\ [][sends' = sends + 1 =>
          \E r \in Running :
             /\ r.pc \in {"deliver", "send"}
             /\ claims >= 1
             /\ CopiesIn(r, invs') = CopiesIn(r, invs) - 1
             /\ At({"sending"})' = At({"sending"}) + 1
             /\ completions' = completions]_vars
  /\ [][completions' = completions + 1 =>
          /\ At({"sending"})' = At({"sending"})
          /\ sends' = sends
          /\ \E r \in Running :
                /\ r.pc = "complete"
                /\ invs' = invs (-) One(r)]_vars

\* Two invocations past their claims at once: one waits for the transport
\* to return, the other's call has returned and its completion is not yet
\* written.
C14_Witness ==
  /\ claims = 2
  /\ sends = 2
  /\ At({"sending"}) = 1
  /\ At({"complete"}) = 1

\* C15  No skipped state.  No write takes delivery.state from PENDING to
\* SUCCESS or ERROR; every completion write and every lease-expiry write is
\* applied to a document whose state is PROCESSING.
C15_NoSkippedState ==
  /\ [][(doc.exists /\ doc.state = "PENDING" /\ doc'.exists)
          => ~(doc'.state \in Terminal)]_vars
  /\ [][(completions' = completions + 1 \/ expires' = expires + 1)
          => doc.state = "PROCESSING"]_vars

\* C16  While delivery.state is PENDING, SUCCESS or ERROR,
\* delivery.leaseExpireTime is empty.
C16_LeaseEmptyUnlessProcessing ==
  (doc.exists /\ doc.hasDelivery /\ doc.state \in {"PENDING", "SUCCESS", "ERROR"})
    => doc.lease = Null

\* C17  From the claim that puts the document into PROCESSING until the
\* completion of that attempt, delivery.error is empty.
C17_ErrorClearedByClaim ==
  /\ [][claims' = claims + 1 => doc'.error = NoError]_vars
  /\ []((doc.exists /\ doc.state = "PROCESSING") => doc.error = NoError)

\* The observations that call for nothing: a deletion, an update without a
\* delivery field, and PROCESSING under a lease that has not run out at t.
NoOpObservation(change, t) ==
  \/ ~change.after.exists
  \/ change.beforeExists /\ ~change.after.hasDelivery
  \/ /\ change.beforeExists
     /\ change.after.hasDelivery
     /\ change.after.state = "PROCESSING"
     /\ change.after.lease # Null
     /\ change.after.lease >= t

\* C18  No-op observations.  An invocation handling a deletion, an update
\* without a delivery field, or PROCESSING under a lease that has not run
\* out is never at a transaction or at the transport call.
C18_NoOpObservations ==
  \A r \in Running : NoOpObservation(r.change, now) => r.pc = "initWait"

\* The document was claimed, attempted and then deleted, all within the
\* lease; the notifications of the claim and of the deletion have been
\* handled, like every other, and nothing more was written.
C18_Witness ==
  /\ notifs = EmptyBag
  /\ invs = EmptyBag
  /\ ~doc.exists
  /\ now = 0
  /\ claims = 1
  /\ completions = 1
  /\ expires = 0

\* C19  One-time initialization.  At most one invocation constructs the
\* transport, and no invocation is past initialize() while the transport is
\* unassigned.
C19_InitializeOnce ==
  /\ At({"initWait"}) <= 1
  /\ \A r \in Running : r.pc # "initWait" => transport

\* C20  delivery.attempts never decreases, and delivery.startTime, once set,
\* never changes.
C20_AttemptsAndStartTime ==
  [][(doc.exists /\ doc.hasDelivery /\ doc'.exists) =>
       /\ doc'.attempts >= doc.attempts
       /\ doc'.startTime = doc.startTime]_vars

(***************************************************************************)
(* One pass over many documents: every payload of Payloads under every     *)
(* configuration of Configs, each notification handled once, by a          *)
(* transport that accepts or fails.  No re-delivery, no external write, no *)
(* passing of time.                                                        *)
(***************************************************************************)
RecipientSamples ==
  { Absent,
    Scalar(Str("a@x.com")),
    Scalar(Num("5")),
    Arr(<<>>),
    Arr(<<Str("a@x.com"), Str("b@x.com")>>),
    Arr(<<Str("a@x.com"), Num("5")>>),
    Arr(<<Num("0")>>) }

UidSamples ==
  { Absent,
    Arr(<<Str("u1")>>),
    Arr(<<Str("u3"), Str("u2"), Str("u1")>>),
    Arr(<<Str("u3")>>),
    Scalar(Str("u1")),
    Scalar(Str("0")) }

TemplateSamples ==
  { NoTemplate,
    [present |-> TRUE, name |-> ""],
    [present |-> TRUE, name |-> "welcome"] }

MessageSamples ==
  { PlainMessage,
    [present |-> TRUE, fields |-> [subject |-> Scalar(Str("Bye"))]],
    [present |-> FALSE, fields |-> EmptyObj] }

Payloads ==
  {PInMessage} \cup
  { [BasePayload EXCEPT !.to = to, !.cc = cc, !.toUids = toUids,
                        !.template = tp, !.message = msg] :
      to \in RecipientSamples,
      cc \in {Absent, Arr(<<Str("c@x.com")>>)},
      toUids \in UidSamples,
      tp \in TemplateSamples,
      msg \in MessageSamples } \cup
  { [BasePayload EXCEPT !.bcc = bcc, !.ccUids = ccUids, !.bccUids = bccUids] :
      bcc \in RecipientSamples,
      ccUids \in {Absent, Arr(<<Str("u2")>>)},
      bccUids \in {Absent, Arr(<<Str("u1"), Str("u3")>>)} }

Configs == {Cfg(FALSE, users, tpl) : users \in BOOLEAN, tpl \in BOOLEAN}

InitPayloads ==
  \E p \in Payloads, c \in Configs : InitWith([payload |-> p, config |-> c])

HandleInitialized == \E n \in Notifications : StartInitialized(n, FALSE)
HandleInitialize == \E n \in Notifications : StartInitialize(n, FALSE)

NextOnce ==
  \/ HandleInitialized
  \/ HandleInitialize
  \/ DoCreateCommit
  \/ DoClaimRead
  \/ DoClaimCommit
  \/ DoPrepare
  \/ DoPrepareReject
  \/ DoDeliver
  \/ DoSendReturn
  \/ DoCompleteCommit

SpecPayloads == InitPayloads /\ [][NextOnce]_vars

(***************************************************************************)
(* Failure surfacing.                                                      *)
(***************************************************************************)
\* A recipient field as the data model allows it: omitted, one string, or a
\* sequence of strings.
WellFormed(f) ==
  \/ f.kind = "absent"
  \/ IsString(f)
  \/ f.kind = "array" /\ \A i \in 1..Len(f.items) : f.items[i].t = "string"

MalformedRecipients(p) ==
  \E f \in {p.to, p.cc, p.bcc, p.toUids, p.ccUids, p.bccUids} : ~WellFormed(f)

GivesNothing(f) == f.kind = "absent" \/ (f.kind = "array" /\ f.items = <<>>)

UidsGiveNothing(f) ==
  \/ f.kind = "absent"
  \/ f.kind = "array" /\ \A i \in 1..Len(f.items) : UsersEmail(f.items[i].s) = ""

\* No address is given directly and none through a uid.
NoRecipients(p) ==
  /\ \A f \in {p.to, p.cc, p.bcc} : GivesNothing(f)
  /\ \A f \in {p.toUids, p.ccUids, p.bccUids} : UidsGiveNothing(f)

UidsGiven(p) == \E f \in {p.toUids, p.ccUids, p.bccUids} : f.kind # "absent"

\* The cases in which the attempt is to fail before the transport is called.
PreparationMustFail(p, c) ==
  \/ MalformedRecipients(p)
  \/ NoRecipients(p)
  \/ c.templatesCollection /\ p.template.present /\ p.template.name = ""
  \/ UidsGiven(p) /\ ~c.usersCollection

\* C10  Failure surfacing.  An attempt that fails writes state = ERROR with
\* the error description; an attempt on a document with a malformed recipient
\* field, with no recipient, with a nameless template or with uids and no
\* users collection fails before the transport is called.
C10_FailureSurfacing ==
  /\ \A r \in Running : r.pc = "complete" =>
       /\ r.upd.error # NoError => r.upd.state = "ERROR"
       /\ PreparationMustFail(payload, config) =>
            r.upd.state = "ERROR" /\ r.upd.error # NoError /\ ~r.upd.sent
  /\ (completions >= 1 /\ PreparationMustFail(payload, config)) =>
       doc.state = "ERROR" /\ doc.error # NoError /\ sends = 0

\* C12  Template merge, caller wins.  For every field that both the message
\* of the document and the rendered template carry, the mail passed to the
\* transport carries the value of the document.
C12_CallerWins ==
  (sends >= 1 /\ templates /\ payload.template.present /\ payload.message.present)
    => \A k \in DOMAIN payload.message.fields
                \cap DOMAIN Render(payload.template.name) :
          mail[k] = payload.message.fields[k]

\* C13  Recipient resolution with uids.  When a *Uids field is present, the
\* to, cc and bcc passed to the transport are the addresses of the uids of
\* toUids, ccUids and bccUids, in uid order, and nothing else.
C13_UidsOnly ==
  (sends >= 1 /\ UidsGiven(payload)) =>
     /\ mail.to = Arr(UidAddresses(payload.toUids))
     /\ mail.cc = Arr(UidAddresses(payload.ccUids))
     /\ mail.bcc = Arr(UidAddresses(payload.bccUids))

(***************************************************************************)
(* End to end: a document is created and left alone; the trigger layer     *)
(* delivers every notification, possibly more than once and possibly late; *)
(* the transport accepts.  The core takes every step it can take.          *)
(***************************************************************************)
InitEndToEnd ==
  \E p \in {PGood, PInMessage}, testing \in BOOLEAN :
     InitWith([payload |-> p, config |-> Cfg(testing, FALSE, FALSE)])

SendAccepted == \E r \in Running : SendReturn(r, TRUE)

\* The steps of the core on the notifications it is handed.
CoreStep ==
  \/ \E n \in Notifications :
       \/ StartInitialized(n, FALSE)
       \/ StartInitialize(n, FALSE)
       \/ StartInitializeTesting(n, FALSE)
  \/ DoInitDone
  \/ DoCreateCommit
  \/ DoExpireCommit
  \/ DoClaimRead
  \/ DoClaimCommit
  \/ DoDeliver
  \/ SendAccepted
  \/ DoCompleteCommit

NextEndToEnd ==
  \/ DoStartInitialized
  \/ DoStartInitialize
  \/ DoStartInitializeTesting
  \/ DoInitDone
  \/ DoCreateCommit
  \/ DoExpireCommit
  \/ DoClaimRead
  \/ DoClaimCommit
  \/ DoDeliver
  \/ SendAccepted
  \/ DoCompleteCommit
  \/ DoTick

SpecEndToEnd == InitEndToEnd /\ [][NextEndToEnd]_vars /\ WF_vars(CoreStep)

\* Every notification has been handled and no invocation is running.
Quiescent == notifs = EmptyBag /\ invs = EmptyBag

Delivered ==
  /\ doc.state = "SUCCESS"
  /\ doc.hasInfo
  /\ doc.accepted = <<Str("a@x.com")>>

\* C9 as stated.  For the document {message: {to: "a@x.com", subject: "s",
\* text: "t"}}, once every notification has been handled the document is in
\* SUCCESS with info.accepted = ["a@x.com"].
C9_InMessageDelivered ==
  (payload = PInMessage /\ Quiescent) => Delivered

\* The code's own shape, {to: "a@x.com", message: {subject: "s", text:
\* "t"}}, is delivered.
TopLevelEventuallyDelivered ==
  (payload = PGood) => <>Delivered

====
